---- MODULE Spec2Model ----
(***************************************************************************)
(* Attendance and payroll routes of the INGENZI HRMS backend               *)
(* (routes/attendance.js, routes/payroll.js, routes/employees.js).         *)
(*                                                                         *)
(* Time is counted in minutes since 1970-01-01 00:00 local time; a Date is *)
(* a number of minutes.  hoursWorked is a decimal with two places and is   *)
(* held as a number of hundredths of an hour.  Money is held in units of   *)
(* 1/10000 of the currency unit, so that 10% and 5% of a salary with two   *)
(* decimals are exact.  A nullable column is NULL (the empty tuple) or a   *)
(* one-element tuple <<v>>.                                                *)
(*                                                                         *)
(* Every route handler is cut at its database calls: the step that reads   *)
(* and decides, and the step that writes, are separate actions, so that    *)
(* requests interleave the way awaits let them.                            *)
(***************************************************************************)
EXTENDS Integers, Sequences, FiniteSets, TLC

VARIABLES now, ticks, attendance, nextAttId, hrOps, payroll, nextPayId,
          salary, users, nextUserId, leaveRequests, nextLeaveId, leaveTypes,
          req, reply

vars == <<now, ticks, attendance, nextAttId, hrOps, payroll, nextPayId,
          salary, users, nextUserId, leaveRequests, nextLeaveId, leaveTypes,
          req, reply>>

attVars == <<attendance, nextAttId>>
payVars == <<payroll, nextPayId>>
userVars == <<users, nextUserId>>
leaveVars == <<leaveRequests, nextLeaveId, leaveTypes>>

(***************************************************************************)
(* Bounds of the model.                                                    *)
(***************************************************************************)
MaxTicks == 2
MaxHrOps == 1
MaxPayId == 2

Reqs == {1, 2}

(***************************************************************************)
(* Nullable values.                                                        *)
(***************************************************************************)
NULL == <<>>
Some(v) == <<v>>
Val(o) == o[1]

(***************************************************************************)
(* Calendar: Date(year, monthIndex, day) and setHours.                     *)
(***************************************************************************)
MinutesPerHour == 60
MinutesPerDay == 24 * MinutesPerHour
IsLeap(y) == (y % 4 = 0 /\ y % 100 # 0) \/ y % 400 = 0

DaysInMonth(y, m) ==
  IF m = 2 THEN (IF IsLeap(y) THEN 29 ELSE 28)
  ELSE IF m \in {4, 6, 9, 11} THEN 30 ELSE 31

\* Days from 1 January 1970 to 1 January of year y.
RECURSIVE DaysBeforeYear(_)
DaysBeforeYear(y) ==
  IF y <= 1970 THEN 0
  ELSE DaysBeforeYear(y - 1) + (IF IsLeap(y - 1) THEN 366 ELSE 365)

RECURSIVE DaysBeforeMonth(_, _)
DaysBeforeMonth(y, m) ==
  IF m <= 1 THEN 0 ELSE DaysBeforeMonth(y, m - 1) + DaysInMonth(y, m - 1)

\* new Date(year, monthIndex, day): monthIndex 12 rolls over into the next
\* year and day 0 is the day before day 1.
MakeDate(y, monthIndex, d) ==
  (DaysBeforeYear(y + (monthIndex \div 12))
     + DaysBeforeMonth(y + (monthIndex \div 12), (monthIndex % 12) + 1)
     + (d - 1)) * MinutesPerDay

\* date.setHours(0, 0, 0, 0)
StartOfDay(t) == (t \div MinutesPerDay) * MinutesPerDay

\* date.setHours(23, 59, 59, 999), at the resolution of the model
EndOfDay(t) == StartOfDay(t) + MinutesPerDay - 1

(***************************************************************************)
(* Users and employees (prisma/seed.js, POST /api/auth/bootstrap).         *)
(***************************************************************************)
UserIds == {1, 2, 3}

\* the user table after the seed
SeedUsers ==
  {[id |-> 1, email |-> "employee", role |-> "employee"],
   [id |-> 2, email |-> "hr", role |-> "hr_manager"],
   [id |-> 3, email |-> "admin", role |-> "system_admin"]}

EmployeeIds == {1, 2}

\* the ids of the leave types after the seed (two of them)
LeaveTypeIds == {1, 2}

Role(u) == CASE u = 1 -> "employee"
             [] u = 2 -> "hr_manager"
             [] OTHER -> "system_admin"

\* user.employee of prisma.user.findUnique({ include: { employee: true } })
EmployeeOf(u) == IF u = 1 THEN Some(1) ELSE NULL

\* authorize that lets every role through.
Authorized_Anyone(u, roles) == TRUE

\* authorize(...roles) of middleware/auth
Authorized(u, roles) == Role(u) \in roles

(***************************************************************************)
(* The clock.                                                              *)
(***************************************************************************)
StartTime == MakeDate(2024, 1, 29) + 9 * MinutesPerHour
TickMinutes == 35

(***************************************************************************)
(* Hours worked.                                                           *)
(***************************************************************************)
\* Number.prototype.toFixed(2) of minutes / 60, as hundredths: the nearest
\* hundredth, the larger in magnitude on a tie, the sign kept.
ToFixed2(minutes) ==
  LET a == IF minutes < 0 THEN -minutes ELSE minutes
      n == 100 * (a \div MinutesPerHour)
             + (2 * 100 * (a % MinutesPerHour) + MinutesPerHour)
                 \div (2 * MinutesPerHour)
  IN IF minutes < 0 THEN -n ELSE n

\* (checkOutTime - checkInTime) / (1000 * 60 * 60), in minutes before the
\* division
Elapsed(checkInTime, checkOutTime) == checkOutTime - checkInTime

(***************************************************************************)
(* The attendance table: @@unique([employeeId, date]).                     *)
(***************************************************************************)
Statuses == {"present", "absent", "late", "half_day"}

\* AttFind looking the record up under the date one minute later (a key that
\* was not truncated to the day).
AttFind_WrongDate(store, e, d) ==
  {a \in store : a.employeeId = e /\ a.date = d + 1}

AttFind(store, e, d) == {a \in store : a.employeeId = e /\ a.date = d}

\* prisma.attendance.findUnique({ where: { employeeId_date } })
AttFindUnique(store, e, d) ==
  IF AttFind(store, e, d) = {} THEN NULL
  ELSE Some(CHOOSE a \in AttFind(store, e, d) : TRUE)

\* update({ data }): the columns named in data are set, the others kept.
SetColumns(row, data) ==
  [c \in DOMAIN row |-> IF c \in DOMAIN data THEN data[c] ELSE row[c]]

\* AttUpsert that empties the table before it creates.
AttUpsert_Replace(store, id, e, d, update, create) ==
  {[create EXCEPT !.id = id]}

\* prisma.attendance.upsert({ where: { employeeId_date }, update, create })
AttUpsert(store, id, e, d, update, create) ==
  IF AttFind(store, e, d) = {}
  THEN store \cup {[create EXCEPT !.id = id]}
  ELSE {IF a \in AttFind(store, e, d) THEN SetColumns(a, update) ELSE a :
          a \in store}

AttNextId(store, id, e, d) == IF AttFind(store, e, d) = {} THEN id + 1 ELSE id

\* Money is counted in units of 1/10000.
MoneyUnit == 100 * 100

NoReply == [op |-> "none", user |-> 0, args |-> <<>>, code |-> "none"]

IdleReq == [pc |-> "idle", user |-> 0, employeeId |-> 0, today |-> 0,
            stamp |-> 0, recId |-> 0, month |-> 0, year |-> 0,
            hours |-> 0, basicSalary |-> 0, workingDays |-> 0,
            email |-> "", leaveTypeId |-> 0, startDate |-> 0, endDate |-> 0,
            days |-> 0]

Init ==
  /\ now = StartTime
  /\ ticks = 0
  /\ attendance = {}
  /\ nextAttId = 1
  /\ hrOps = 0
  /\ payroll = {}
  /\ nextPayId = 1
  /\ salary = [e \in EmployeeIds |-> IF e = 1 THEN 5000 * MoneyUnit
                                    ELSE 6000 * MoneyUnit]
  /\ users = SeedUsers
  /\ nextUserId = Cardinality(SeedUsers) + 1
  /\ leaveRequests = {}
  /\ nextLeaveId = 1
  /\ leaveTypes = LeaveTypeIds
  /\ req = [r \in Reqs |-> IdleReq]
  /\ reply = NoReply

\* A request takes the lowest free slot: the slots are interchangeable.
Free(r) ==
  /\ req[r].pc = "idle"
  /\ \A q \in Reqs : q < r => req[q].pc # "idle"

Tick ==
  /\ ticks < MaxTicks
  /\ now' = now + TickMinutes
  /\ ticks' = ticks + 1
  /\ reply' = NoReply
  /\ UNCHANGED <<attVars, hrOps, payVars, salary, req, userVars, leaveVars>>

\* The response: the request leaves its slot, and reply keeps what was asked,
\* by whom, and the answer.
Finish(r, op, u, args, code) ==
  /\ req' = [req EXCEPT ![r] = IdleReq]
  /\ reply' = [op |-> op, user |-> u, args |-> args, code |-> code]

(***************************************************************************)
(* POST /api/attendance/checkin                                            *)
(***************************************************************************)
\* existing && existing.checkIn
AlreadyCheckedIn(existing) ==
  existing # NULL /\ Val(existing).checkIn # NULL

\* The user lookup, today, the findUnique and the check on its result.
CheckInFind(r, u) ==
  /\ Free(r)
  /\ UNCHANGED <<now, ticks, attVars, hrOps, payVars, salary, userVars, leaveVars>>
  /\ IF EmployeeOf(u) = NULL
     THEN Finish(r, "checkin", u, <<>>, "EmployeeRecordNotFound")
     ELSE LET e == Val(EmployeeOf(u))
              today == StartOfDay(now)
              existing == AttFindUnique(attendance, e, today)
          IN IF AlreadyCheckedIn(existing)
             THEN Finish(r, "checkin", u, <<>>, "AlreadyCheckedIn")
             ELSE /\ req' = [req EXCEPT ![r] =
                       [IdleReq EXCEPT !.pc = "checkin_upsert", !.user = u,
                                       !.employeeId = e, !.today = today,
                                       !.stamp = now]]
                  /\ reply' = NoReply

\* CheckInUpdate without status: 'present'.
CheckInUpdate_NoStatus(stamp) == [checkIn |-> Some(stamp)]

CheckInUpdate(stamp) == [checkIn |-> Some(stamp), status |-> "present"]

CheckInCreate(e, today, stamp) ==
  [id |-> 0, employeeId |-> e, date |-> today, checkIn |-> Some(stamp),
   checkOut |-> NULL, hoursWorked |-> NULL, status |-> "present"]

\* The upsert.
CheckInUpsert(r) ==
  /\ req[r].pc = "checkin_upsert"
  /\ LET e == req[r].employeeId
         d == req[r].today
     IN /\ attendance' = AttUpsert(attendance, nextAttId, e, d,
                                   CheckInUpdate(req[r].stamp),
                                   CheckInCreate(e, d, req[r].stamp))
        /\ nextAttId' = AttNextId(attendance, nextAttId, e, d)
  /\ Finish(r, "checkin", req[r].user, <<>>, "CheckedIn")
  /\ UNCHANGED <<now, ticks, hrOps, payVars, salary, userVars, leaveVars>>

(***************************************************************************)
(* POST /api/attendance/checkout                                           *)
(***************************************************************************)
\* hoursWorked.toFixed(2) of the check-out path
CheckOutHours(checkInTime, checkOutTime) ==
  ToFixed2(Elapsed(checkInTime, checkOutTime))

\* NotCheckedIn as !attendance alone.
NotCheckedIn_NoRecordOnly(found) == found = NULL

\* !attendance || !attendance.checkIn
NotCheckedIn(found) == found = NULL \/ Val(found).checkIn = NULL

\* AlreadyCheckedOut with the check left out.
AlreadyCheckedOut_Never(found) == FALSE

\* attendance.checkOut
AlreadyCheckedOut(found) == Val(found).checkOut # NULL

\* new Date(attendance.checkIn): new Date(null) is time 0
ToDate(stamp) == IF stamp = NULL THEN 0 ELSE Val(stamp)

\* The user lookup, today, the findUnique, the two checks and the hours.
CheckOutFind(r, u) ==
  /\ Free(r)
  /\ UNCHANGED <<now, ticks, attVars, hrOps, payVars, salary, userVars, leaveVars>>
  /\ IF EmployeeOf(u) = NULL
     THEN Finish(r, "checkout", u, <<>>, "EmployeeRecordNotFound")
     ELSE LET e == Val(EmployeeOf(u))
              today == StartOfDay(now)
              found == AttFindUnique(attendance, e, today)
          IN IF NotCheckedIn(found)
             THEN Finish(r, "checkout", u, <<>>, "NotCheckedIn")
             ELSE IF AlreadyCheckedOut(found)
             THEN Finish(r, "checkout", u, <<>>, "AlreadyCheckedOut")
             ELSE /\ req' = [req EXCEPT ![r] =
                       [IdleReq EXCEPT !.pc = "checkout_update", !.user = u,
                          !.employeeId = e, !.today = today, !.stamp = now,
                          !.recId = Val(found).id,
                          !.hours = CheckOutHours(ToDate(Val(found).checkIn), now)]]
                  /\ reply' = NoReply

CheckOutData_WithStatus(stamp, hours) ==
  [checkOut |-> Some(stamp), hoursWorked |-> Some(hours), status |-> "present"]

\* data: { checkOut: checkOutTime, hoursWorked: hoursWorked.toFixed(2) }
CheckOutData(stamp, hours) ==
  [checkOut |-> Some(stamp), hoursWorked |-> Some(hours)]

\* prisma.attendance.update({ where: { id }, data: { checkOut, hoursWorked } })
CheckOutUpdate(r) ==
  /\ req[r].pc = "checkout_update"
  /\ UNCHANGED <<now, ticks, nextAttId, hrOps, payVars, salary, userVars, leaveVars>>
  /\ IF \E a \in attendance : a.id = req[r].recId
     THEN /\ attendance' =
               {IF a.id = req[r].recId
                THEN SetColumns(a, CheckOutData(req[r].stamp, req[r].hours))
                ELSE a : a \in attendance}
          /\ Finish(r, "checkout", req[r].user, <<>>, "CheckedOut")
     ELSE /\ UNCHANGED attendance
          /\ Finish(r, "checkout", req[r].user, <<>>, "ServerError")

(***************************************************************************)
(* POST /api/attendance (HR manager and admin)                             *)
(***************************************************************************)
\* let hoursWorked = null; if (checkIn && checkOut) hoursWorked = ...;
\* stored as hoursWorked ? hoursWorked.toFixed(2) : null
HrHoursWorked(checkIn, checkOut) ==
  IF checkIn # NULL /\ checkOut # NULL
  THEN IF Elapsed(Val(checkIn), Val(checkOut)) # 0
       THEN Some(ToFixed2(Elapsed(Val(checkIn), Val(checkOut))))
       ELSE NULL
  ELSE NULL

HrUpdate(checkIn, checkOut, status) ==
  [checkIn |-> checkIn, checkOut |-> checkOut,
   hoursWorked |-> HrHoursWorked(checkIn, checkOut), status |-> status]

HrCreate(e, d, checkIn, checkOut, status) ==
  [id |-> 0, employeeId |-> e, date |-> d, checkIn |-> checkIn,
   checkOut |-> checkOut, hoursWorked |-> HrHoursWorked(checkIn, checkOut),
   status |-> status]

\* The whole handler: it has one database call, the upsert.
HrUpsert(r, u, e, date, checkIn, checkOut, status) ==
  /\ Free(r)
  /\ UNCHANGED <<now, ticks, payVars, salary, userVars, leaveVars>>
  /\ IF ~Authorized(u, {"hr_manager", "system_admin"})
     THEN /\ UNCHANGED attVars
          /\ Finish(r, "hr_upsert", u, <<e, date, checkIn, checkOut, status>>, "Forbidden")
     ELSE IF status \notin Statuses
     THEN /\ UNCHANGED attVars
          /\ Finish(r, "hr_upsert", u, <<e, date, checkIn, checkOut, status>>, "ValidationError")
     ELSE LET d == StartOfDay(date)
          IN /\ attendance' = AttUpsert(attendance, nextAttId, e, d,
                                  HrUpdate(checkIn, checkOut, status),
                                  HrCreate(e, d, checkIn, checkOut, status))
             /\ nextAttId' = AttNextId(attendance, nextAttId, e, d)
             /\ Finish(r, "hr_upsert", u, <<e, date, checkIn, checkOut, status>>, "AttendanceSaved")

(***************************************************************************)
(* The payroll table.                                                      *)
(***************************************************************************)
\* Whether the payroll table declares @@unique([employeeId, month, year]).
\* The handler looks the triple up with findFirst and handles no P2002.
PayrollUniqueIndex == FALSE

\* PayFind with the employeeId dropped from the where clause.
PayFind_AnyEmployee(store, e, m, y) ==
  {p \in store : p.month = m /\ p.year = y}

PayFind(store, e, m, y) ==
  {p \in store : p.employeeId = e /\ p.month = m /\ p.year = y}

\* the month window: new Date(year, month - 1, 1) at 00:00:00.000 and
\* new Date(year, month, 0) at 23:59:59.999
MonthStart(y, m) == StartOfDay(MakeDate(y, m - 1, 1))
\* MonthEnd as new Date(year, month, 1): the first day of the next month.
MonthEnd_NextMonth(y, m) == EndOfDay(MakeDate(y, m, 1))

MonthEnd(y, m) == EndOfDay(MakeDate(y, m, 0))

\* prisma.attendance.findMany({ where: { employeeId, date: { gte, lte },
\* status: 'present' } })
PresentInMonth(store, e, m, y) ==
  {a \in store : /\ a.employeeId = e
                 /\ a.date >= MonthStart(y, m)
                 /\ a.date <= MonthEnd(y, m)
                 /\ a.status = "present"}

\* attendance.length
WorkingDays(store, e, m, y) == Cardinality(PresentInMonth(store, e, m, y))

Allowances(basicSalary) == basicSalary \div 10

\* Deductions at the allowance rate.
Deductions_TenPercent(basicSalary) == basicSalary \div 10

Deductions(basicSalary) == basicSalary \div 20

NetSalary(basicSalary, allowances, deductions) ==
  basicSalary + allowances - deductions

\* NewPayroll with status: 'paid'.
NewPayroll_Paid(id, e, m, y, basicSalary, workingDays) ==
  [id |-> id, employeeId |-> e, month |-> m, year |-> y,
   basicSalary |-> basicSalary,
   allowances |-> Allowances(basicSalary),
   deductions |-> Deductions(basicSalary),
   netSalary |-> NetSalary(basicSalary, Allowances(basicSalary),
                           Deductions(basicSalary)),
   workingDays |-> workingDays, status |-> "paid", paidDate |-> NULL]

NewPayroll(id, e, m, y, basicSalary, workingDays) ==
  [id |-> id, employeeId |-> e, month |-> m, year |-> y,
   basicSalary |-> basicSalary,
   allowances |-> Allowances(basicSalary),
   deductions |-> Deductions(basicSalary),
   netSalary |-> NetSalary(basicSalary, Allowances(basicSalary),
                           Deductions(basicSalary)),
   workingDays |-> workingDays, status |-> "pending", paidDate |-> NULL]

(***************************************************************************)
(* POST /api/payroll (HR manager and admin)                                *)
(***************************************************************************)
ValidMonth(m) == m >= 1 /\ m <= 12

\* ValidYear without the floor.
ValidYear_Any(y) == TRUE

ValidYear(y) == y >= 2000

\* authorize, the validators, the findFirst and the check on its result.
GenFindFirst(r, u, e, m, y) ==
  /\ Free(r)
  /\ UNCHANGED <<now, ticks, attVars, hrOps, payVars, salary, userVars, leaveVars>>
  /\ IF ~Authorized(u, {"hr_manager", "system_admin"})
     THEN Finish(r, "generate", u, <<e, m, y>>, "Forbidden")
     ELSE IF ~(ValidMonth(m) /\ ValidYear(y))
     THEN Finish(r, "generate", u, <<e, m, y>>, "ValidationError")
     ELSE IF PayFind(payroll, e, m, y) # {}
     THEN Finish(r, "generate", u, <<e, m, y>>, "DuplicatePayroll")
     ELSE /\ req' = [req EXCEPT ![r] =
               [IdleReq EXCEPT !.pc = "gen_employee", !.user = u,
                               !.employeeId = e, !.month = m, !.year = y]]
          /\ reply' = NoReply

\* prisma.employee.findUnique and the check on its result.
GenFindEmployee(r) ==
  /\ req[r].pc = "gen_employee"
  /\ UNCHANGED <<now, ticks, attVars, hrOps, payVars, salary, userVars, leaveVars>>
  /\ IF req[r].employeeId \notin EmployeeIds
     THEN Finish(r, "generate", req[r].user, <<req[r].employeeId, req[r].month, req[r].year>>, "EmployeeNotFound")
     ELSE /\ req' = [req EXCEPT ![r].pc = "gen_attendance",
                                ![r].basicSalary = salary[req[r].employeeId]]
          /\ reply' = NoReply

\* prisma.attendance.findMany over the month window.
GenFindAttendance(r) ==
  /\ req[r].pc = "gen_attendance"
  /\ UNCHANGED <<now, ticks, attVars, hrOps, payVars, salary, userVars, leaveVars>>
  /\ req' = [req EXCEPT ![r].pc = "gen_create",
                        ![r].workingDays =
                           WorkingDays(attendance, req[r].employeeId,
                                       req[r].month, req[r].year)]
  /\ reply' = NoReply

\* prisma.payroll.create
GenCreate(r) ==
  /\ req[r].pc = "gen_create"
  /\ UNCHANGED <<now, ticks, attVars, hrOps, salary, userVars, leaveVars>>
  /\ IF PayrollUniqueIndex
        /\ PayFind(payroll, req[r].employeeId, req[r].month, req[r].year) # {}
     THEN /\ UNCHANGED payVars
          /\ Finish(r, "generate", req[r].user, <<req[r].employeeId, req[r].month, req[r].year>>, "ServerError")
     ELSE /\ payroll' = payroll \cup
               {NewPayroll(nextPayId, req[r].employeeId, req[r].month,
                           req[r].year, req[r].basicSalary,
                           req[r].workingDays)}
          /\ nextPayId' = nextPayId + 1
          /\ Finish(r, "generate", req[r].user, <<req[r].employeeId, req[r].month, req[r].year>>, "PayrollGenerated")

(***************************************************************************)
(* PUT /api/payroll/:id/paid (HR manager and admin)                        *)
(***************************************************************************)
\* PaidData without paidDate.
PaidData_NoDate(stamp) == [status |-> "paid"]

\* data: { status: 'paid', paidDate: new Date() }
PaidData(stamp) == [status |-> "paid", paidDate |-> Some(stamp)]

\* PayUpdate that turns a paid record back to pending.
PayUpdate_Toggle(store, id, data) ==
  {IF p.id = id
   THEN IF p.status = "paid" THEN [p EXCEPT !.status = "pending"]
                             ELSE SetColumns(p, data)
   ELSE p : p \in store}

\* PayUpdate as an upsert: a record is made when there is none.
PayUpdate_Upsert(store, id, data) ==
  IF \E p \in store : p.id = id
  THEN {IF p.id = id THEN SetColumns(p, data) ELSE p : p \in store}
  ELSE store \cup {SetColumns(NewPayroll(id, 0, 0, 0, 0, 0), data)}

\* prisma.payroll.update({ where: { id }, data }): the rows after the call
\* (P2025 and no change when there is no such record).
PayUpdate(store, id, data) ==
  {IF p.id = id THEN SetColumns(p, data) ELSE p : p \in store}

MarkPaid(r, u, id) ==
  /\ Free(r)
  /\ UNCHANGED <<now, ticks, attVars, hrOps, nextPayId, salary, userVars, leaveVars>>
  /\ IF ~Authorized(u, {"hr_manager", "system_admin"})
     THEN /\ UNCHANGED payroll
          /\ Finish(r, "mark_paid", u, <<id>>, "Forbidden")
     ELSE /\ payroll' = PayUpdate(payroll, id, PaidData(now))
          /\ IF \E p \in payroll : p.id = id
             THEN Finish(r, "mark_paid", u, <<id>>, "MarkedPaid")
             ELSE Finish(r, "mark_paid", u, <<id>>, "PayrollNotFound")

(***************************************************************************)
(* DELETE /api/payroll/:id (admin)                                         *)
(***************************************************************************)
\* authorize, the findUnique and the check on its result.
DeleteFind(r, u, id) ==
  /\ Free(r)
  /\ UNCHANGED <<now, ticks, attVars, hrOps, payVars, salary, userVars, leaveVars>>
  /\ IF ~Authorized(u, {"system_admin"})
     THEN Finish(r, "delete", u, <<id>>, "Forbidden")
     ELSE IF ~(\E p \in payroll : p.id = id)
     THEN Finish(r, "delete", u, <<id>>, "PayrollNotFound")
     ELSE /\ req' = [req EXCEPT ![r] =
               [IdleReq EXCEPT !.pc = "delete_delete", !.user = u,
                               !.recId = id]]
          /\ reply' = NoReply

\* PayDelete that leaves the row in the table.
PayDelete_Keep(store, id) == store

\* prisma.payroll.delete({ where: { id } }): the rows after the call.
PayDelete(store, id) == {p \in store : p.id # id}

\* prisma.payroll.delete, P2025 when the record is gone.
DeleteDelete(r) ==
  /\ req[r].pc = "delete_delete"
  /\ UNCHANGED <<now, ticks, attVars, hrOps, nextPayId, salary, userVars, leaveVars>>
  /\ IF \E p \in payroll : p.id = req[r].recId
     THEN /\ payroll' = PayDelete(payroll, req[r].recId)
          /\ Finish(r, "delete", req[r].user, <<req[r].recId>>, "PayrollDeleted")
     ELSE /\ UNCHANGED payroll
          /\ Finish(r, "delete", req[r].user, <<req[r].recId>>, "PayrollNotFound")

(***************************************************************************)
(* GET /api/attendance, GET /api/payroll, GET /api/payroll/:id.  The reply *)
(* carries the rows that are sent.  A query parameter that is left out is  *)
(* NULL.                                                                   *)
(***************************************************************************)
\* WhereEmployee with the query's employeeId taken for every role.
WhereEmployee_FromQuery(u, employeeId) == employeeId

\* The where clause on employeeId: the caller's own employee for the role
\* employee, else the employeeId of the query when there is one.
WhereEmployee(u, employeeId) ==
  IF Role(u) = "employee" THEN EmployeeOf(u) ELSE employeeId

\* prisma.attendance.findMany({ where })
AttFindMany(store, employeeId, startDate, endDate) ==
  {a \in store : /\ employeeId # NULL => a.employeeId = Val(employeeId)
                 /\ startDate # NULL => a.date >= Val(startDate)
                 /\ endDate # NULL => a.date <= Val(endDate)}

\* prisma.payroll.findMany({ where })
PayFindMany(store, employeeId, month, year) ==
  {p \in store : /\ employeeId # NULL => p.employeeId = Val(employeeId)
                 /\ month # NULL => p.month = Val(month)
                 /\ year # NULL => p.year = Val(year)}

ListAttendance(r, u, employeeId, startDate, endDate) ==
  /\ Free(r)
  /\ UNCHANGED <<now, ticks, attVars, hrOps, payVars, salary, userVars,
                 leaveVars>>
  /\ IF Role(u) = "employee" /\ EmployeeOf(u) = NULL
     THEN Finish(r, "list_attendance", u, <<employeeId, {}>>,
                 "EmployeeRecordNotFound")
     ELSE Finish(r, "list_attendance", u,
                 <<employeeId,
                   AttFindMany(attendance, WhereEmployee(u, employeeId),
                               startDate, endDate)>>, "Listed")

ListPayroll(r, u, employeeId, month, year) ==
  /\ Free(r)
  /\ UNCHANGED <<now, ticks, attVars, hrOps, payVars, salary, userVars,
                 leaveVars>>
  /\ IF Role(u) = "employee" /\ EmployeeOf(u) = NULL
     THEN Finish(r, "list_payroll", u, <<employeeId, {}>>,
                 "EmployeeRecordNotFound")
     ELSE Finish(r, "list_payroll", u,
                 <<employeeId,
                   PayFindMany(payroll, WhereEmployee(u, employeeId),
                               month, year)>>, "Listed")

\* if (!user.employee || user.employee.id !== payroll.employeeId)
AccessDenied(u, p) ==
  Role(u) = "employee" /\ EmployeeOf(u) # Some(p.employeeId)

GetPayroll(r, u, id) ==
  /\ Free(r)
  /\ UNCHANGED <<now, ticks, attVars, hrOps, payVars, salary, userVars,
                 leaveVars>>
  /\ LET found == {p \in payroll : p.id = id}
     IN IF found = {}
        THEN Finish(r, "get_payroll", u, <<id, {}>>, "PayrollNotFound")
        ELSE IF \E p \in found : AccessDenied(u, p)
        THEN Finish(r, "get_payroll", u, <<id, {}>>, "AccessDenied")
        ELSE Finish(r, "get_payroll", u, <<id, found>>, "Found")

(***************************************************************************)
(* PUT /api/employees/:id (HR manager and admin), the salary alone         *)
(***************************************************************************)
UpdateEmployee(r, u, e, newSalary) ==
  /\ Free(r)
  /\ UNCHANGED <<now, ticks, attVars, hrOps, payVars, userVars, leaveVars>>
  /\ IF ~Authorized(u, {"hr_manager", "system_admin"})
     THEN /\ UNCHANGED salary
          /\ Finish(r, "update_employee", u, <<e, newSalary>>, "Forbidden")
     ELSE IF newSalary < 0
     THEN /\ UNCHANGED salary
          /\ Finish(r, "update_employee", u, <<e, newSalary>>, "ValidationError")
     ELSE IF e \notin EmployeeIds
     THEN /\ UNCHANGED salary
          /\ Finish(r, "update_employee", u, <<e, newSalary>>, "EmployeeNotFound")
     ELSE /\ salary' = [salary EXCEPT ![e] =
                          IF newSalary # 0 THEN newSalary ELSE @]
          /\ Finish(r, "update_employee", u, <<e, newSalary>>, "EmployeeUpdated")

(***************************************************************************)
(* POST /api/auth/bootstrap (no authentication)                            *)
(***************************************************************************)
\* prisma.user.findFirst({ where: { role: 'system_admin' } })
ExistingAdmin(table) == {x \in table : x.role = "system_admin"}

\* prisma.user.findUnique({ where: { email } })
ExistingUser(table, email) == {x \in table : x.email = email}

\* The validators, the two lookups and the checks on their results.  An
\* email that is not one is written "".
BootstrapFind(r, email) ==
  /\ Free(r)
  /\ UNCHANGED <<now, ticks, attVars, hrOps, payVars, salary, userVars,
                 leaveVars>>
  /\ IF email = ""
     THEN Finish(r, "bootstrap", 0, <<email>>, "ValidationError")
     ELSE IF ExistingAdmin(users) # {}
     THEN Finish(r, "bootstrap", 0, <<email>>, "AdminExists")
     ELSE IF ExistingUser(users, email) # {}
     THEN Finish(r, "bootstrap", 0, <<email>>, "UserExists")
     ELSE /\ req' = [req EXCEPT ![r] =
               [IdleReq EXCEPT !.pc = "bootstrap_create", !.email = email]]
          /\ reply' = NoReply

\* prisma.user.create({ data: { email, ..., role: 'system_admin' } }); the
\* email column is unique (it is a findUnique key), the role column is not.
BootstrapCreate(r) ==
  /\ req[r].pc = "bootstrap_create"
  /\ UNCHANGED <<now, ticks, attVars, hrOps, payVars, salary, leaveVars>>
  /\ IF ExistingUser(users, req[r].email) # {}
     THEN /\ UNCHANGED userVars
          /\ Finish(r, "bootstrap", 0, <<req[r].email>>, "ServerError")
     ELSE /\ users' = users \cup {[id |-> nextUserId, email |-> req[r].email,
                                    role |-> "system_admin"]}
          /\ nextUserId' = nextUserId + 1
          /\ Finish(r, "bootstrap", 0, <<req[r].email>>, "AdminCreated")

(***************************************************************************)
(* POST /api/leave (any authenticated user)                                *)
(***************************************************************************)
\* Math.ceil(a / b) for b > 0
Ceil(a, b) == -((-a) \div b)

\* Math.ceil((end - start) / (1000 * 60 * 60 * 24)) + 1
LeaveDays(start, end) == Ceil(end - start, MinutesPerDay) + 1

\* if (days <= 0)
InvalidRange(start, end) == LeaveDays(start, end) <= 0

\* The validators, the employee lookup, the range check and the leave type
\* lookup.  A date that is not ISO 8601 is written NULL.
LeaveFind(r, u, leaveTypeId, startDate, endDate) ==
  /\ Free(r)
  /\ UNCHANGED <<now, ticks, attVars, hrOps, payVars, salary, userVars,
                 leaveVars>>
  /\ LET args == <<leaveTypeId, startDate, endDate>>
     IN IF startDate = NULL \/ endDate = NULL
        THEN Finish(r, "leave_create", u, args, "ValidationError")
        ELSE IF EmployeeOf(u) = NULL
        THEN Finish(r, "leave_create", u, args, "EmployeeRecordNotFound")
        ELSE IF InvalidRange(Val(startDate), Val(endDate))
        THEN Finish(r, "leave_create", u, args, "InvalidRange")
        ELSE IF leaveTypeId \notin leaveTypes
        THEN Finish(r, "leave_create", u, args, "LeaveTypeNotFound")
        ELSE /\ req' = [req EXCEPT ![r] =
                  [IdleReq EXCEPT !.pc = "leave_create", !.user = u,
                                  !.employeeId = Val(EmployeeOf(u)),
                                  !.leaveTypeId = leaveTypeId,
                                  !.startDate = Val(startDate),
                                  !.endDate = Val(endDate),
                                  !.days = LeaveDays(Val(startDate),
                                                     Val(endDate))]]
             /\ reply' = NoReply

NewLeaveRequest(id, e, leaveTypeId, start, end, days) ==
  [id |-> id, employeeId |-> e, leaveTypeId |-> leaveTypeId,
   startDate |-> start, endDate |-> end, days |-> days, status |-> "pending",
   approvedBy |-> NULL, approvedDate |-> NULL]

\* prisma.leaveRequest.create
LeaveCreate(r) ==
  /\ req[r].pc = "leave_create"
  /\ UNCHANGED <<now, ticks, attVars, hrOps, payVars, salary, userVars,
                 leaveTypes>>
  /\ leaveRequests' = leaveRequests \cup
        {NewLeaveRequest(nextLeaveId, req[r].employeeId, req[r].leaveTypeId,
                         req[r].startDate, req[r].endDate, req[r].days)}
  /\ nextLeaveId' = nextLeaveId + 1
  /\ Finish(r, "leave_create", req[r].user,
            <<req[r].leaveTypeId, Some(req[r].startDate),
              Some(req[r].endDate)>>, "LeaveRequested")

(***************************************************************************)
(* PUT /api/leave/:id/approve and PUT /api/leave/:id/reject (HR manager    *)
(* and admin)                                                              *)
(***************************************************************************)
\* DecisionData without approvedBy.
DecisionData_NoApprover(status, u, stamp) ==
  [status |-> status, approvedDate |-> Some(stamp)]

\* data: { status, approvedBy: req.user.id, approvedDate: new Date() }
DecisionData(status, u, stamp) ==
  [status |-> status, approvedBy |-> Some(u), approvedDate |-> Some(stamp)]

\* prisma.leaveRequest.update({ where: { id }, data }), P2025 when there is
\* no such request.
LeaveDecide(r, op, status, u, id) ==
  /\ Free(r)
  /\ UNCHANGED <<now, ticks, attVars, hrOps, payVars, salary, userVars,
                 nextLeaveId, leaveTypes>>
  /\ IF ~Authorized(u, {"hr_manager", "system_admin"})
     THEN /\ UNCHANGED leaveRequests
          /\ Finish(r, op, u, <<id>>, "Forbidden")
     ELSE /\ leaveRequests' =
               {IF l.id = id THEN SetColumns(l, DecisionData(status, u, now))
                             ELSE l : l \in leaveRequests}
          /\ IF \E l \in leaveRequests : l.id = id
             THEN Finish(r, op, u, <<id>>, "LeaveDecided")
             ELSE Finish(r, op, u, <<id>>, "LeaveRequestNotFound")

Approve(r, u, id) == LeaveDecide(r, "approve", "approved", u, id)
Reject(r, u, id) == LeaveDecide(r, "reject", "rejected", u, id)

(***************************************************************************)
(* DELETE /api/leave/types/:id (admin)                                     *)
(***************************************************************************)
\* TypeInUse that finds no request.
TypeInUse_Never(store, leaveTypeId) == {}

\* prisma.leaveRequest.findFirst({ where: { leaveTypeId } })
TypeInUse(store, leaveTypeId) == {l \in store : l.leaveTypeId = leaveTypeId}

\* authorize, the findFirst and the check on its result.
DeleteTypeFind(r, u, leaveTypeId) ==
  /\ Free(r)
  /\ UNCHANGED <<now, ticks, attVars, hrOps, payVars, salary, userVars,
                 leaveVars>>
  /\ IF ~Authorized(u, {"system_admin"})
     THEN Finish(r, "delete_leave_type", u, <<leaveTypeId>>, "Forbidden")
     ELSE IF TypeInUse(leaveRequests, leaveTypeId) # {}
     THEN Finish(r, "delete_leave_type", u, <<leaveTypeId>>, "LeaveTypeInUse")
     ELSE /\ req' = [req EXCEPT ![r] =
               [IdleReq EXCEPT !.pc = "delete_type", !.user = u,
                               !.leaveTypeId = leaveTypeId]]
          /\ reply' = NoReply

\* prisma.leaveType.delete, P2025 when the type is gone.
DeleteTypeDelete(r) ==
  /\ req[r].pc = "delete_type"
  /\ UNCHANGED <<now, ticks, attVars, hrOps, payVars, salary, userVars,
                 leaveRequests, nextLeaveId>>
  /\ IF req[r].leaveTypeId \in leaveTypes
     THEN /\ leaveTypes' = leaveTypes \ {req[r].leaveTypeId}
          /\ Finish(r, "delete_leave_type", req[r].user,
                    <<req[r].leaveTypeId>>, "LeaveTypeDeleted")
     ELSE /\ UNCHANGED leaveTypes
          /\ Finish(r, "delete_leave_type", req[r].user,
                    <<req[r].leaveTypeId>>, "LeaveTypeNotFound")

(***************************************************************************)
(* The sequential specification: one request at a time, with the full set  *)
(* of request bodies.                                                      *)
(***************************************************************************)
HrTimes == {NULL, Some(StartTime - 50), Some(StartTime + 20)}
HrStatuses == {"present", "absent"}
HrToday == StartTime

\* <<user, employeeId, date, checkIn, checkOut, status>>
HrRequests ==
  {<<2, e, HrToday, checkIn, checkOut, status>> :
     e \in EmployeeIds, checkIn \in HrTimes, checkOut \in HrTimes,
     status \in HrStatuses}
  \cup {<<3, 1, HrToday, NULL, NULL, "late">>,
        <<2, 1, HrToday, NULL, NULL, "bogus">>,
        <<1, 1, HrToday, NULL, NULL, "present">>}

CheckInFindSeq == \E u \in UserIds : CheckInFind(1, u)
CheckInUpsertSeq == CheckInUpsert(1)
CheckOutFindSeq == \E u \in UserIds : CheckOutFind(1, u)
CheckOutUpdateSeq == CheckOutUpdate(1)
HrUpsertSeq ==
  /\ UNCHANGED hrOps
  /\ \E b \in HrRequests : HrUpsert(1, b[1], b[2], b[3], b[4], b[5], b[6])

NextSeq ==
  \/ Tick
  \/ CheckInFindSeq
  \/ CheckInUpsertSeq
  \/ CheckOutFindSeq
  \/ CheckOutUpdateSeq
  \/ HrUpsertSeq

SpecSeq == Init /\ [][NextSeq]_vars

(***************************************************************************)
(* The concurrent specification: two requests in flight, with the request  *)
(* bodies that make them meet on one record.                               *)
(***************************************************************************)
ConcTimes == {NULL, Some(StartTime - 50)}

CheckInFindAny == \E r \in Reqs, u \in UserIds : CheckInFind(r, u)
CheckInUpsertAny == \E r \in Reqs : CheckInUpsert(r)
CheckOutFindAny == \E r \in Reqs, u \in UserIds : CheckOutFind(r, u)
CheckOutUpdateAny == \E r \in Reqs : CheckOutUpdate(r)
HrUpsertAny ==
  /\ hrOps < MaxHrOps
  /\ hrOps' = hrOps + 1
  /\ \E r \in Reqs, e \in EmployeeIds, checkIn \in ConcTimes :
          HrUpsert(r, 2, e, StartTime, checkIn, NULL, "absent")

Next ==
  \/ Tick
  \/ CheckInFindAny
  \/ CheckInUpsertAny
  \/ CheckOutFindAny
  \/ CheckOutUpdateAny
  \/ HrUpsertAny

(***************************************************************************)
(* The payroll specification: payroll requests, two in flight, over an     *)
(* attendance table that HR has filled for January to March 2024, with     *)
(* salary changes and attendance corrections arriving in between.          *)
(***************************************************************************)
SeedRows ==
  << <<1, MakeDate(2024, 0, 31), "present">>,
     <<1, MakeDate(2024, 1, 1), "present">>,
     <<1, MakeDate(2024, 1, 15), "half_day">>,
     <<1, MakeDate(2024, 1, 29), "present">>,
     <<1, MakeDate(2024, 2, 1), "present">>,
     <<2, MakeDate(2024, 1, 10), "present">> >>

SeedAttendance ==
  {[HrCreate(SeedRows[i][1], SeedRows[i][2], NULL, NULL, SeedRows[i][3])
      EXCEPT !.id = i] : i \in 1..Len(SeedRows)}

InitPay ==
  /\ now = StartTime
  /\ ticks = 0
  /\ attendance = SeedAttendance
  /\ nextAttId = Len(SeedRows) + 1
  /\ hrOps = 0
  /\ payroll = {}
  /\ nextPayId = 1
  /\ salary = [e \in EmployeeIds |-> IF e = 1 THEN 5000 * MoneyUnit
                                    ELSE 6000 * MoneyUnit]
  /\ users = SeedUsers
  /\ nextUserId = Cardinality(SeedUsers) + 1
  /\ leaveRequests = {}
  /\ nextLeaveId = 1
  /\ leaveTypes = LeaveTypeIds
  /\ req = [r \in Reqs |-> IdleReq]
  /\ reply = NoReply

\* <<user, employeeId, month, year>>
GenRequests ==
  {<<2, 1, 2, 2024>>, <<2, 2, 2, 2024>>, <<3, 1, 2, 2024>>,
   <<1, 1, 2, 2024>>, <<2, 9, 2, 2024>>, <<2, 1, 13, 2024>>,
   <<2, 1, 0, 2024>>, <<2, 1, 2, 1999>>}
MarkPaidUsers == {1, 2}
DeleteUsers == {2, 3}
PayDates == {MakeDate(2024, 1, 29)}
PayStatuses == {"present", "late"}
NewSalary == 123455 * (MoneyUnit \div 100)
SalaryInputs == {0, NewSalary}

\* <<user, employeeId, salary>>
SalaryRequests ==
  {<<2, 1, NewSalary>>, <<2, 1, 0>>, <<2, 9, NewSalary>>, <<1, 1, NewSalary>>,
   <<2, 1, -1>>}

GenFindFirstSeq ==
  \E b \in GenRequests : GenFindFirst(1, b[1], b[2], b[3], b[4])
GenFindEmployeeSeq == GenFindEmployee(1)
GenFindAttendanceSeq == GenFindAttendance(1)
GenCreateSeq == nextPayId <= MaxPayId /\ GenCreate(1)
MarkPaidSeq == \E u \in MarkPaidUsers, id \in 1..MaxPayId : MarkPaid(1, u, id)
DeleteFindSeq == \E u \in DeleteUsers, id \in 1..MaxPayId : DeleteFind(1, u, id)
DeleteDeleteSeq == DeleteDelete(1)
UpdateEmployeeSeq ==
  \E b \in SalaryRequests : UpdateEmployee(1, b[1], b[2], b[3])
HrUpsertPaySeq ==
  /\ UNCHANGED hrOps
  /\ \E date \in PayDates, status \in PayStatuses :
        HrUpsert(1, 2, 1, date, NULL, NULL, status)

NextPay ==
  \/ Tick
  \/ GenFindFirstSeq
  \/ GenFindEmployeeSeq
  \/ GenFindAttendanceSeq
  \/ GenCreateSeq
  \/ MarkPaidSeq
  \/ DeleteFindSeq
  \/ DeleteDeleteSeq
  \/ UpdateEmployeeSeq
  \/ HrUpsertPaySeq

SpecPay == InitPay /\ [][NextPay]_vars

(***************************************************************************)
(* The concurrent payroll specification: two generate requests in flight   *)
(* for employee 1 and February 2024, with a salary change and an           *)
(* attendance correction arriving between their steps.                     *)
(***************************************************************************)
GenFindFirstAny == \E r \in Reqs, e \in EmployeeIds : GenFindFirst(r, 2, e, 2, 2024)
GenFindEmployeeAny == \E r \in Reqs : GenFindEmployee(r)
GenFindAttendanceAny == \E r \in Reqs : GenFindAttendance(r)
GenCreateAny == nextPayId <= MaxPayId /\ \E r \in Reqs : GenCreate(r)
UpdateEmployeeAny ==
  \E r \in Reqs, newSalary \in SalaryInputs : UpdateEmployee(r, 2, 1, newSalary)
HrUpsertPayAny ==
  /\ UNCHANGED hrOps
  /\ \E r \in Reqs, date \in PayDates, status \in PayStatuses :
        HrUpsert(r, 2, 1, date, NULL, NULL, status)

NextPayConc ==
  \/ GenFindFirstAny
  \/ GenFindEmployeeAny
  \/ GenFindAttendanceAny
  \/ GenCreateAny
  \/ UpdateEmployeeAny
  \/ HrUpsertPayAny

SpecPayConc == InitPay /\ [][NextPayConc]_vars

Spec == Init /\ [][Next]_vars

(***************************************************************************)
(* The office specification: one request at a time over both stores, on a  *)
(* day when January's payroll of employee 1 has been generated and paid.   *)
(* Employees check in and out and read their records; HR and the admin     *)
(* enter attendance, generate, pay and delete payroll.                     *)
(***************************************************************************)
PaidYesterday ==
  SetColumns(NewPayroll(1, 1, 1, 2024, 5000 * MoneyUnit,
                        WorkingDays(SeedAttendance, 1, 1, 2024)),
             PaidData(StartTime - MinutesPerDay))

InitOffice ==
  /\ now = StartTime
  /\ ticks = 0
  /\ attendance = SeedAttendance
  /\ nextAttId = Len(SeedRows) + 1
  /\ hrOps = 0
  /\ payroll = {PaidYesterday}
  /\ nextPayId = 2
  /\ salary = [e \in EmployeeIds |-> IF e = 1 THEN 5000 * MoneyUnit
                                    ELSE 6000 * MoneyUnit]
  /\ users = SeedUsers
  /\ nextUserId = Cardinality(SeedUsers) + 1
  /\ leaveRequests = {}
  /\ nextLeaveId = 1
  /\ leaveTypes = LeaveTypeIds
  /\ req = [r \in Reqs |-> IdleReq]
  /\ reply = NoReply

OfficePayIds == 1..(MaxPayId + 1)
OfficeUsers == {1, 2}

\* <<user, employeeId, month, year>>
OfficeGenRequests ==
  {<<2, 1, 2, 2024>>, <<3, 2, 2, 2024>>, <<1, 1, 2, 2024>>,
   <<2, 9, 2, 2024>>, <<2, 1, 1, 2024>>}

EmployeeFilters == {NULL, Some(1), Some(2)}
StartFilters == {NULL, Some(MonthStart(2024, 2))}
MonthFilters == {NULL, Some(2)}

CheckInFindOffice == CheckInFind(1, 1)
CheckOutFindOffice == CheckOutFind(1, 1)
HrUpsertOffice ==
  /\ UNCHANGED hrOps
  /\ \E u \in OfficeUsers : HrUpsert(1, u, 1, StartTime, NULL, NULL, "absent")
GenFindFirstOffice ==
  \E b \in OfficeGenRequests : GenFindFirst(1, b[1], b[2], b[3], b[4])
GenCreateOffice == nextPayId <= MaxPayId /\ GenCreate(1)
MarkPaidOffice ==
  \E u \in OfficeUsers, id \in OfficePayIds : MarkPaid(1, u, id)
DeleteFindOffice == \E u \in UserIds, id \in OfficePayIds : DeleteFind(1, u, id)
ListAttendanceOffice ==
  \E u \in OfficeUsers, e \in EmployeeFilters, d \in StartFilters :
     ListAttendance(1, u, e, d, NULL)
ListPayrollOffice ==
  \E u \in OfficeUsers, e \in EmployeeFilters, m \in MonthFilters :
     ListPayroll(1, u, e, m, NULL)
GetPayrollOffice ==
  \E u \in OfficeUsers, id \in OfficePayIds : GetPayroll(1, u, id)

NextOffice ==
  \/ CheckInFindOffice
  \/ CheckInUpsertSeq
  \/ CheckOutFindOffice
  \/ CheckOutUpdateSeq
  \/ HrUpsertOffice
  \/ GenFindFirstOffice
  \/ GenFindEmployeeSeq
  \/ GenFindAttendanceSeq
  \/ GenCreateOffice
  \/ MarkPaidOffice
  \/ DeleteFindOffice
  \/ DeleteDeleteSeq
  \/ ListAttendanceOffice
  \/ ListPayrollOffice
  \/ GetPayrollOffice

SpecOffice == InitOffice /\ [][NextOffice]_vars

(***************************************************************************)
(* The bootstrap specification: a fresh installation, where the user table *)
(* holds no admin, and two bootstrap requests in flight.                   *)
(***************************************************************************)
InitBootstrap ==
  /\ now = StartTime
  /\ ticks = 0
  /\ attendance = {}
  /\ nextAttId = 1
  /\ hrOps = 0
  /\ payroll = {}
  /\ nextPayId = 1
  /\ salary = [e \in EmployeeIds |-> IF e = 1 THEN 5000 * MoneyUnit
                                    ELSE 6000 * MoneyUnit]
  /\ users \in SUBSET {x \in SeedUsers : x.role # "system_admin"}
  /\ nextUserId = Cardinality(SeedUsers) + 1
  /\ leaveRequests = {}
  /\ nextLeaveId = 1
  /\ leaveTypes = LeaveTypeIds
  /\ req = [r \in Reqs |-> IdleReq]
  /\ reply = NoReply

BootstrapEmails == {"", "hr", "admin", "root"}

BootstrapFindAny == \E r \in Reqs, email \in BootstrapEmails : BootstrapFind(r, email)
BootstrapCreateAny == \E r \in Reqs : BootstrapCreate(r)

NextBootstrap ==
  \/ BootstrapFindAny
  \/ BootstrapCreateAny

SpecBootstrap == InitBootstrap /\ [][NextBootstrap]_vars

(***************************************************************************)
(* The leave specification: leave requests, one at a time, with start and  *)
(* end dates a few hours and a few days apart.                             *)
(***************************************************************************)
MaxLeaveId == 2
LeaveDay == MakeDate(2024, 2, 4)
HalfDay == MinutesPerDay \div 2

LeaveStarts == {NULL, Some(LeaveDay), Some(LeaveDay + HalfDay)}
LeaveEnds ==
  {NULL, Some(LeaveDay - MinutesPerDay), Some(LeaveDay),
   Some(LeaveDay + HalfDay), Some(LeaveDay + 2 * MinutesPerDay)}

\* <<user, leaveTypeId, startDate, endDate>>
LeaveRequestBodies ==
  {<<1, 1, startDate, endDate>> : startDate \in LeaveStarts,
                                  endDate \in LeaveEnds}
  \cup {<<2, 1, Some(LeaveDay), Some(LeaveDay)>>,
        <<1, 9, Some(LeaveDay), Some(LeaveDay)>>}

LeaveFindSeq ==
  \E b \in LeaveRequestBodies : LeaveFind(1, b[1], b[2], b[3], b[4])
LeaveCreateSeq == nextLeaveId <= MaxLeaveId /\ LeaveCreate(1)

NextLeave ==
  \/ LeaveFindSeq
  \/ LeaveCreateSeq

SpecLeave == Init /\ [][NextLeave]_vars

(***************************************************************************)
(* The time clock specification: the employee's check-in and check-out     *)
(* requests alone, two in flight.                                          *)
(***************************************************************************)
NextClock ==
  \/ Tick
  \/ CheckInFindAny
  \/ CheckInUpsertAny
  \/ CheckOutFindAny
  \/ CheckOutUpdateAny

SpecClock == Init /\ [][NextClock]_vars

(***************************************************************************)
(* The leave desk specification: one request at a time; a leave request of *)
(* employee 1 for leave type 1 was approved by HR the day before, and      *)
(* requests are made, approved, rejected and leave types deleted.          *)
(***************************************************************************)
ApprovedYesterday ==
  SetColumns(NewLeaveRequest(1, 1, 1, LeaveDay, LeaveDay + MinutesPerDay,
                             LeaveDays(LeaveDay, LeaveDay + MinutesPerDay)),
             DecisionData("approved", 2, StartTime - MinutesPerDay))

InitLeaveDesk ==
  /\ now = StartTime
  /\ ticks = 0
  /\ attendance = {}
  /\ nextAttId = 1
  /\ hrOps = 0
  /\ payroll = {}
  /\ nextPayId = 1
  /\ salary = [e \in EmployeeIds |-> IF e = 1 THEN 5000 * MoneyUnit
                                    ELSE 6000 * MoneyUnit]
  /\ users = SeedUsers
  /\ nextUserId = Cardinality(SeedUsers) + 1
  /\ leaveRequests = {ApprovedYesterday}
  /\ nextLeaveId = 2
  /\ leaveTypes = LeaveTypeIds
  /\ req = [r \in Reqs |-> IdleReq]
  /\ reply = NoReply


LeaveFindDesk ==
  \E t \in LeaveTypeIds \cup {9} : LeaveFind(1, 1, t, Some(LeaveDay), Some(LeaveDay))
LeaveCreateDesk == nextLeaveId <= MaxLeaveId /\ LeaveCreate(1)
ApproveDesk == \E u \in UserIds, id \in 1..(MaxLeaveId + 1) : Approve(1, u, id)
RejectDesk == \E u \in UserIds, id \in 1..(MaxLeaveId + 1) : Reject(1, u, id)
DeleteTypeFindDesk ==
  \E u \in {2, 3}, t \in LeaveTypeIds \cup {9} : DeleteTypeFind(1, u, t)
DeleteTypeDeleteDesk == DeleteTypeDelete(1)

NextLeaveDesk ==
  \/ LeaveFindDesk
  \/ LeaveCreateDesk
  \/ ApproveDesk
  \/ RejectDesk
  \/ DeleteTypeFindDesk
  \/ DeleteTypeDeleteDesk

SpecLeaveDesk == InitLeaveDesk /\ [][NextLeaveDesk]_vars

(***************************************************************************)
(* Properties.                                                             *)
(***************************************************************************)
\* The step answers a request at its first database call: the slot it took
\* is free again at once.
AnswersAtOnce(op) == reply'.op = op /\ req' = req

\* The step is the first step of a handler that goes on to step pc.
GoesOn(r, pc) == req[r].pc = "idle" /\ req'[r].pc = pc

\* The step takes a handler from step pc to step next.
GoesOnFrom(r, pc, next) == req[r].pc = pc /\ req'[r].pc = next

\* The step is the last step of a handler that was at pc.
Completes(r, pc) == req[r].pc = pc /\ req'[r].pc = "idle"

SameTriple(p, e, m, y) == p.employeeId = e /\ p.month = m /\ p.year = y
SameDay(a, e, d) == a.employeeId = e /\ a.date = d
DayOf(t) == t - (t % MinutesPerDay)

\* Minutes as hours with two decimals, in hundredths.
RoundedHours(minutes) ==
  CHOOSE n \in 0..(2 * minutes + 1) :
    /\ 2 * MinutesPerHour * n <= 2 * 100 * minutes + MinutesPerHour
    /\ 2 * 100 * minutes + MinutesPerHour < 2 * MinutesPerHour * (n + 1)

\* C1: in every state reached by interleaved generatePayroll requests the
\* payroll store holds at most one record per (employeeId, month, year).
C1_OnePayrollPerTriple ==
  \A p, q \in payroll :
    SameTriple(p, q.employeeId, q.month, q.year) => p = q

\* C2: a generatePayroll request made when a record for its (employee,
\* month, year) exists fails with DuplicatePayroll and leaves the payroll
\* store as it was; it passes the check only when there is no such record.
C2_SecondGenerateFails ==
  [][ /\ ( /\ AnswersAtOnce("generate")
           /\ Role(reply'.user) \in {"hr_manager", "system_admin"}
           /\ reply'.args[2] \in 1..12 /\ reply'.args[3] >= 2000 )
         => ( /\ reply'.code = "DuplicatePayroll"
              /\ \E p \in payroll : SameTriple(p, reply'.args[1],
                                       reply'.args[2], reply'.args[3])
              /\ payroll' = payroll
              /\ nextPayId' = nextPayId )
      /\ \A r \in Reqs : GoesOn(r, "gen_employee")
           => ~(\E p \in payroll : SameTriple(p, req'[r].employeeId,
                                       req'[r].month, req'[r].year))
    ]_vars

C2_Witness ==
  /\ reply.op = "generate"
  /\ reply.code = "DuplicatePayroll"
  /\ \E p \in payroll : SameTriple(p, reply.args[1], reply.args[2], reply.args[3])

\* C3: under any interleaving of check-in, check-out and HR create/update
\* requests the attendance store holds at most one record per
\* (employeeId, day).
C3_OneRecordPerDay ==
  \A a, b \in attendance : SameDay(a, b.employeeId, b.date) => a = b

C3_Witness ==
  /\ reply.op = "checkin" /\ reply.code = "CheckedIn"
  /\ \E a, b \in attendance : a.employeeId # b.employeeId /\ a.date = b.date
  /\ hrOps > 0

\* C4: a check-in by an employee fails with AlreadyCheckedIn exactly when
\* the record for (employee, today) has a non-null checkIn, and changes
\* nothing then; otherwise it goes on to the upsert, after which the one
\* record for (employee, today) has checkIn = the request's time and
\* status = present.
C4_CheckIn ==
  [][ /\ (AnswersAtOnce("checkin") /\ reply'.user = 1)
         => ( /\ reply'.code = "AlreadyCheckedIn"
              /\ \E a \in attendance :
                   SameDay(a, 1, DayOf(now)) /\ a.checkIn # NULL
              /\ attendance' = attendance )
      /\ \A r \in Reqs : GoesOn(r, "checkin_upsert")
           => ( /\ req'[r].employeeId = req'[r].user
                /\ req'[r].today = DayOf(now)
                /\ req'[r].stamp = now
                /\ ~(\E a \in attendance :
                       SameDay(a, req'[r].employeeId, DayOf(now))
                       /\ a.checkIn # NULL) )
      /\ \A r \in Reqs : Completes(r, "checkin_upsert")
           => ( /\ reply'.code = "CheckedIn"
                /\ \E a \in attendance' :
                     /\ SameDay(a, req[r].employeeId, req[r].today)
                     /\ a.checkIn = <<req[r].stamp>>
                     /\ a.status = "present"
                /\ \A a \in attendance' :
                     SameDay(a, req[r].employeeId, req[r].today)
                     \/ a \in attendance )
    ]_vars

\* A check-in that filled in a record HR had entered as absent.
C4_Witness ==
  /\ reply.op = "checkin" /\ reply.code = "CheckedIn"
  /\ \E a \in attendance :
       /\ a.employeeId = 1 /\ a.checkIn = <<now>> /\ a.status = "present"
       /\ a.checkOut # NULL

\* C5: a check-out by an employee who has no record for today, or whose
\* record for today has a null checkIn, fails with NotCheckedIn.
C5_CheckOutWithoutCheckIn ==
  [][ /\ ( /\ AnswersAtOnce("checkout") /\ reply'.user = 1
           /\ \A a \in attendance :
                SameDay(a, 1, DayOf(now)) => a.checkIn = NULL )
         => (reply'.code = "NotCheckedIn" /\ attendance' = attendance)
      /\ \A r \in Reqs : GoesOn(r, "checkout_update")
           => \E a \in attendance :
                /\ SameDay(a, req'[r].employeeId, DayOf(now))
                /\ a.checkIn # NULL
    ]_vars

\* A check-out refused on a record that has no checkIn.
C5_Witness ==
  /\ reply.op = "checkout" /\ reply.code = "NotCheckedIn"
  /\ \E a \in attendance : SameDay(a, 1, DayOf(now)) /\ a.checkIn = NULL

\* C6 as stated: once the employee's record for the day has a non-null
\* checkOut, a check-out request fails with AlreadyCheckedOut and the
\* record keeps its checkOut and hoursWorked.
C6_Original ==
  [][ /\ ( /\ AnswersAtOnce("checkout") /\ reply'.user = 1
           /\ \E a \in attendance :
                SameDay(a, 1, DayOf(now)) /\ a.checkOut # NULL )
         => (reply'.code = "AlreadyCheckedOut" /\ attendance' = attendance)
      /\ \A r \in Reqs : GoesOn(r, "checkout_update")
           => ~(\E a \in attendance :
                  /\ SameDay(a, req'[r].employeeId, DayOf(now))
                  /\ a.checkOut # NULL)
    ]_vars

\* C6: a check-out request that finds the employee's record for today with
\* a non-null checkIn and a non-null checkOut fails with AlreadyCheckedOut
\* and changes nothing in the attendance store.
C6_CheckOutTwice ==
  [][ /\ ( /\ AnswersAtOnce("checkout") /\ reply'.user = 1
           /\ \E a \in attendance :
                /\ SameDay(a, 1, DayOf(now))
                /\ a.checkIn # NULL /\ a.checkOut # NULL )
         => (reply'.code = "AlreadyCheckedOut" /\ attendance' = attendance)
      /\ \A r \in Reqs : GoesOn(r, "checkout_update")
           => ~(\E a \in attendance :
                  /\ SameDay(a, req'[r].employeeId, DayOf(now))
                  /\ a.checkIn # NULL /\ a.checkOut # NULL)
    ]_vars

C6_Witness ==
  /\ reply.op = "checkout" /\ reply.code = "AlreadyCheckedOut"
  /\ \E a \in attendance :
       SameDay(a, 1, DayOf(now)) /\ a.checkIn # NULL /\ a.checkOut # NULL

\* C7: every attendance record with both checkIn and checkOut set has
\* hoursWorked = (checkOut - checkIn) in hours rounded to 2 decimals, and
\* hoursWorked is not negative.
C7_HoursWorked ==
  \A a \in attendance :
    (a.checkIn # NULL /\ a.checkOut # NULL)
      => /\ a.checkOut[1] >= a.checkIn[1]
         /\ a.hoursWorked = <<RoundedHours(a.checkOut[1] - a.checkIn[1])>>

\* C8: an HR create/update that supplies both checkIn and checkOut stores
\* the hours-worked formula applied to them (0 when they are equal) in the
\* one record for (employeeId, day), also over a record that has a checkIn.
C8_HrHoursWorked ==
  [][ ( /\ reply'.op = "hr_upsert" /\ reply'.code = "AttendanceSaved"
        /\ reply'.args[3] # NULL /\ reply'.args[4] # NULL
        /\ reply'.args[4][1] >= reply'.args[3][1] )
      => \E a \in attendance' :
           /\ SameDay(a, reply'.args[1], DayOf(reply'.args[2]))
           /\ a.hoursWorked =
                <<RoundedHours(reply'.args[4][1] - reply'.args[3][1])>>
    ]_vars

\* C9: every payroll record is created with allowances = 10% and
\* deductions = 5% of basicSalary, netSalary = basicSalary + allowances -
\* deductions, and basicSalary = the salary the request read from the
\* employee; 5000 gives 500, 250 and 5250.
C9_PayrollAmounts ==
  [][ /\ \A r \in Reqs : GoesOnFrom(r, "gen_employee", "gen_attendance")
           => req'[r].basicSalary = salary[req[r].employeeId]
      /\ \A r \in Reqs : Completes(r, "gen_create")
           => \E p \in payroll' \ payroll :
                /\ payroll' = payroll \cup {p}
                /\ p.basicSalary = req[r].basicSalary
                /\ 10 * p.allowances = p.basicSalary
                /\ 20 * p.deductions = p.basicSalary
                /\ p.netSalary = p.basicSalary + p.allowances - p.deductions
                /\ (p.basicSalary = 5000 * MoneyUnit
                      => /\ p.allowances = 500 * MoneyUnit
                         /\ p.deductions = 250 * MoneyUnit
                         /\ p.netSalary = 5250 * MoneyUnit)
    ]_vars

\* A record generated after the salary changed, and one generated at 5000.
C9_Witness ==
  /\ \E p \in payroll : p.basicSalary = 5000 * MoneyUnit
                        /\ p.netSalary = 5250 * MoneyUnit
  /\ \E p \in payroll : p.basicSalary = NewSalary

\* C10: workingDays of a generated record is the number of the employee's
\* attendance records, in the store when the request reads it, with status
\* present and a day from the first to the last calendar day of the month.
FirstDayOfMonth(y, m) == MakeDate(y, m - 1, 1)
LastDayOfMonth(y, m) == MakeDate(y, m - 1, DaysInMonth(y, m))

C10_WorkingDays ==
  [][ /\ \A r \in Reqs : GoesOnFrom(r, "gen_attendance", "gen_create")
           => req'[r].workingDays =
                Cardinality({a \in attendance :
                   /\ a.employeeId = req[r].employeeId
                   /\ a.status = "present"
                   /\ a.date >= FirstDayOfMonth(req[r].year, req[r].month)
                   /\ a.date <= LastDayOfMonth(req[r].year, req[r].month)})
      /\ \A r \in Reqs : Completes(r, "gen_create")
           => \E p \in payroll' \ payroll :
                /\ SameTriple(p, req[r].employeeId, req[r].month, req[r].year)
                /\ p.workingDays = req[r].workingDays
    ]_vars

\* February 2024 for employee 1: the 1st and the 29th count, 31 January,
\* 1 March, the half day and employee 2's day do not.
C10_Witness ==
  \E p \in payroll :
    /\ SameTriple(p, 1, 2, 2024) /\ p.workingDays = 2
    /\ Cardinality({a \in attendance : a.employeeId = 1}) = 5

\* C11: a payroll record enters the store with status pending, and a step
\* that keeps a record either keeps its status or takes it from pending to
\* paid; no step takes a paid record back to pending.
C11_PendingThenPaid ==
  [][ \A q \in payroll' :
        IF \E p \in payroll : p.id = q.id
        THEN \A p \in payroll :
               p.id = q.id => \/ q.status = p.status
                              \/ p.status = "pending" /\ q.status = "paid"
        ELSE q.status = "pending"
    ]_vars

C11_Witness ==
  /\ \E p \in payroll : p.status = "paid" /\ p.paidDate # NULL
  /\ \E p \in payroll : p.status = "pending"

\* C12: markPaid by an authorized caller on the id of a stored record
\* answers success, sets that record's status to paid and its paidDate to
\* the current time and leaves every other record as it was; on an id with
\* no record it answers not found (404) and leaves the payroll store as it
\* was.
C12_MarkPaid ==
  [][ (reply'.op = "mark_paid" /\ reply'.code # "Forbidden")
      => IF \E p \in payroll : p.id = reply'.args[1]
         THEN /\ reply'.code = "MarkedPaid"
              /\ payroll' =
                   {IF p.id = reply'.args[1]
                    THEN [p EXCEPT !.status = "paid", !.paidDate = <<now>>]
                    ELSE p : p \in payroll}
         ELSE /\ reply'.code = "PayrollNotFound"
              /\ payroll' = payroll
    ]_vars

C12_Witness ==
  /\ reply.op = "mark_paid" /\ reply.code = "MarkedPaid"
  /\ \E p \in payroll :
       p.id = reply.args[1] /\ p.status = "paid" /\ p.paidDate = <<now>>
  /\ \E p \in payroll : p.id # reply.args[1] /\ p.status = "pending"

\* C13: markPaid on a record that is already paid succeeds, and the record
\* is afterwards what it was, status paid, but for its paidDate.
C13_MarkPaidAgain ==
  [][ ( /\ reply'.op = "mark_paid" /\ reply'.code # "Forbidden"
        /\ \E p \in payroll : p.id = reply'.args[1] /\ p.status = "paid" )
      => /\ reply'.code = "MarkedPaid"
         /\ \A p \in payroll :
              p.id = reply'.args[1]
                => \E q \in payroll' :
                     /\ q.status = "paid"
                     /\ q = [p EXCEPT !.paidDate = q.paidDate]
    ]_vars

\* January's record, paid the day before, has been marked paid again today.
C13_Witness ==
  /\ reply.op = "mark_paid" /\ reply.code = "MarkedPaid" /\ reply.args[1] = 1
  /\ \E p \in payroll :
       /\ p.id = 1 /\ p.status = "paid"
       /\ p.paidDate = <<now>> /\ p.paidDate # PaidYesterday.paidDate

\* C14: a step that answers a check-in, check-out, generate or markPaid
\* request (or a delete) with one of the error kinds leaves the attendance
\* and payroll stores as they were, and so does every step of a request
\* before its answer: the stores change only in the step that answers a
\* request with success.
ErrorKinds ==
  {"NotCheckedIn", "AlreadyCheckedIn", "AlreadyCheckedOut",
   "DuplicatePayroll", "EmployeeNotFound", "EmployeeRecordNotFound",
   "PayrollNotFound"}
SuccessKinds ==
  {"CheckedIn", "CheckedOut", "AttendanceSaved", "PayrollGenerated",
   "MarkedPaid", "PayrollDeleted"}

C14_ErrorsChangeNothing ==
  [][ /\ reply'.code \in ErrorKinds
        => <<attendance, nextAttId, payroll, nextPayId>>' =
           <<attendance, nextAttId, payroll, nextPayId>>
      /\ (attendance' # attendance \/ payroll' # payroll)
        => reply'.code \in SuccessKinds
    ]_vars

\* An unknown employee is found out at the second database call of generate,
\* over stores that hold records.
C14_Witness ==
  /\ reply.op = "generate" /\ reply.code = "EmployeeNotFound"
  /\ Cardinality(payroll) >= 2
  /\ \E a \in attendance : a.checkIn # NULL

\* C15: every payroll record has month in 1..12, year >= 2000 and the
\* employeeId of an employee; a generate request by an authorized caller
\* with another month or year answers a validation error, one for an
\* unknown employee answers EmployeeNotFound, and neither creates a record.
C15_GeneratePreconditions ==
  [][ /\ \A p \in payroll' :
           /\ p.month \in 1..12 /\ p.year >= 2000
           /\ p.employeeId \in DOMAIN salary
      /\ (reply'.op = "generate" /\ reply'.code # "Forbidden")
           => /\ (reply'.args[2] \notin 1..12 \/ reply'.args[3] < 2000)
                   => reply'.code = "ValidationError" /\ payroll' = payroll
              /\ reply'.args[1] \notin DOMAIN salary
                   => /\ reply'.code \in {"ValidationError",
                                          "EmployeeNotFound"}
                      /\ payroll' = payroll
    ]_vars

C15_Witness ==
  /\ reply.op = "generate" /\ reply.code = "ValidationError"
  /\ reply.args[3] < 2000
  /\ payroll # {}

\* C16: no step of a check-in, check-out or HR attendance request removes
\* an attendance record: every (employeeId, day) that has a record before
\* the step has one after it.
C16_NoAttendanceDeleted ==
  [][ \A a \in attendance :
        \E b \in attendance' : SameDay(b, a.employeeId, a.date)
    ]_vars

\* Two records are stored, one of them written three times (created, checked
\* in or corrected, checked out).
C16_Witness ==
  /\ reply.op = "checkout" /\ reply.code = "CheckedOut"
  /\ hrOps > 0
  /\ Cardinality(attendance) >= 2

\* C17: every row sent to a caller with the role employee, by the attendance
\* list, the payroll list or the payroll lookup by id, has the employeeId of
\* the caller's own employee record, whatever filter or id the request gave.
C17_EmployeeSeesOwnRecords ==
  [][ ( /\ reply'.op \in {"list_attendance", "list_payroll", "get_payroll"}
        /\ \E x \in SeedUsers :
             x.id = reply'.user /\ x.role = "employee" )
      => \A row \in reply'.args[2] : <<row.employeeId>> = EmployeeOf(reply'.user)
    ]_vars

\* The employee asks for employee 2's payroll, which exists, and is sent
\* their own.
C17_Witness ==
  /\ reply.op = "list_payroll" /\ reply.user = 1 /\ reply.args[1] = <<2>>
  /\ reply.args[2] # {}
  /\ \E p \in payroll : p.employeeId = 2

\* C18: generate, markPaid, payroll deletion and the HR attendance path
\* answer a caller with the role employee with 403 and change nothing;
\* payroll deletion answers an hr_manager the same way; so the payroll store
\* changes only in a step that answers an hr_manager or a system_admin, and
\* loses a record only in a step that answers a system_admin.
RoleOf(u) == (CHOOSE x \in SeedUsers : x.id = u).role

C18_RoleGating ==
  [][ /\ ( /\ reply'.op \in {"generate", "mark_paid", "delete", "hr_upsert"}
           /\ RoleOf(reply'.user) = "employee" )
        => /\ reply'.code = "Forbidden"
           /\ attendance' = attendance /\ payroll' = payroll
      /\ (reply'.op = "delete" /\ RoleOf(reply'.user) # "system_admin")
        => reply'.code = "Forbidden" /\ payroll' = payroll
      /\ payroll' # payroll
        => RoleOf(reply'.user) \in {"hr_manager", "system_admin"}
      /\ (\E p \in payroll : \A q \in payroll' : q.id # p.id)
        => RoleOf(reply'.user) = "system_admin"
    ]_vars

\* The employee asks to mark a pending record paid and is refused.
C18_Witness ==
  /\ reply.op = "mark_paid" /\ reply.user = 1 /\ reply.code = "Forbidden"
  /\ \E p \in payroll : p.id = reply.args[1] /\ p.status = "pending"

\* C19: starting from a user table without admins, bootstrap requests in
\* any interleaving leave at most one user with the role system_admin.
C19_OneAdmin ==
  Cardinality({x \in users : x.role = "system_admin"}) <= 1

\* C20: a leave request by an employee whose end date is before its start
\* date, by any amount, answers InvalidRange and creates nothing; every
\* stored leave request has endDate >= startDate and days >= 1.
C20_InvalidRange ==
  [][ /\ ( /\ reply'.op = "leave_create"
           /\ reply'.user = 1
           /\ reply'.args[2] # NULL /\ reply'.args[3] # NULL
           /\ reply'.args[3][1] < reply'.args[2][1] )
        => reply'.code = "InvalidRange" /\ leaveRequests' = leaveRequests
      /\ \A l \in leaveRequests' : l.endDate >= l.startDate /\ l.days >= 1
    ]_vars

\* C21: deleting a leave type that some leave request references answers
\* 400 and keeps the type, and after every step of a sequence of leave
\* requests and leave type deletions each stored leave request references
\* a stored leave type.
C21_LeaveTypeInUse ==
  [][ /\ ( /\ reply'.op = "delete_leave_type" /\ reply'.code # "Forbidden"
           /\ \E l \in leaveRequests : l.leaveTypeId = reply'.args[1] )
        => reply'.code = "LeaveTypeInUse" /\ leaveTypes' = leaveTypes
      /\ \A l \in leaveRequests' : l.leaveTypeId \in leaveTypes'
    ]_vars

\* The admin is refused the deletion of the type in use after deleting the
\* one that was not.
C21_Witness ==
  /\ reply.op = "delete_leave_type" /\ reply.code = "LeaveTypeInUse"
  /\ reply.args[1] \in leaveTypes
  /\ leaveTypes # LeaveTypeIds

\* C23: a check-in that returns success finds no checkIn stored for the
\* employee's day: of two concurrent check-ins at most one succeeds and the
\* checkIn the first one stored is not written again.
C23_OneCheckInSucceeds ==
  [][ \A r \in Reqs :
        (Completes(r, "checkin_upsert") /\ reply'.code = "CheckedIn")
          => ~\E a \in attendance :
                SameDay(a, req[r].employeeId, req[r].today) /\ a.checkIn # NULL
    ]_vars

\* C24: a check-out that returns success finds no checkOut stored for the
\* employee's day: of two concurrent check-outs at most one succeeds and
\* checkOut and hoursWorked are written once.
C24_OneCheckOutSucceeds ==
  [][ \A r \in Reqs :
        (Completes(r, "checkout_update") /\ reply'.code = "CheckedOut")
          => ~\E a \in attendance :
                SameDay(a, req[r].employeeId, req[r].today) /\ a.checkOut # NULL
    ]_vars

\* C25: in every state an attendance record with a non-null hoursWorked has
\* a non-null checkIn and a non-null checkOut.
C25_HoursNeedBothStamps ==
  \A a \in attendance :
    a.hoursWorked # NULL => a.checkIn # NULL /\ a.checkOut # NULL

\* C26: a check-out that returns success changes the checkOut and the
\* hoursWorked of the employee's record for today and nothing else: every
\* other column of that record and every other attendance record are as
\* they were, and no record is added or removed.
C26_CheckOutFrame ==
  [][ \A r \in Reqs :
        (Completes(r, "checkout_update") /\ reply'.code = "CheckedOut")
          => /\ Cardinality(attendance') = Cardinality(attendance)
             /\ \A a \in attendance :
                  IF SameDay(a, req[r].employeeId, req[r].today)
                  THEN \E b \in attendance' :
                         /\ b = [a EXCEPT !.checkOut = b.checkOut,
                                          !.hoursWorked = b.hoursWorked]
                         /\ b.checkOut = <<req[r].stamp>>
                  ELSE a \in attendance'
    ]_vars

\* The employee has checked out while HR's record for another employee,
\* entered absent and without times, is stored beside theirs.
C26_Witness ==
  /\ reply.op = "checkout" /\ reply.code = "CheckedOut"
  /\ \E a \in attendance :
       /\ a.employeeId = 1 /\ a.checkIn # NULL
       /\ a.checkOut = <<now>> /\ a.hoursWorked # NULL
  /\ \E a \in attendance :
       /\ a.employeeId # 1 /\ a.status = "absent"
       /\ a.checkOut = NULL /\ a.hoursWorked = NULL

\* C27: once a payroll record is deleted its triple is free again: delete
\* removes the record, a generate request is answered DuplicatePayroll only
\* while a record for its triple is stored, and the record a generate
\* request creates is pending with no paidDate, also when the deleted record
\* was paid.
C27_DeleteThenGenerate ==
  [][ /\ (reply'.op = "delete" /\ reply'.code = "PayrollDeleted")
        => ~\E p \in payroll' : p.id = reply'.args[1]
      /\ (reply'.op = "generate" /\ reply'.code = "DuplicatePayroll")
        => \E p \in payroll :
             SameTriple(p, reply'.args[1], reply'.args[2], reply'.args[3])
      /\ Completes(1, "gen_create")
        => /\ reply'.code = "PayrollGenerated"
           /\ \E p \in payroll' \ payroll :
                /\ SameTriple(p, req[1].employeeId, req[1].month, req[1].year)
                /\ p.status = "pending" /\ p.paidDate = NULL
    ]_vars

\* January's record, which was paid, is gone and January has been generated
\* again: the new record is pending.
C27_Witness ==
  /\ reply.op = "generate" /\ reply.code = "PayrollGenerated"
  /\ ~\E p \in payroll : p.id = PaidYesterday.id
  /\ \E p \in payroll :
       /\ SameTriple(p, PaidYesterday.employeeId, PaidYesterday.month,
                     PaidYesterday.year)
       /\ p.status = "pending" /\ p.paidDate = NULL

\* C28: in every state a leave request is pending exactly when its
\* approvedBy and approvedDate are unset; a leave request enters the store
\* pending; approve and reject by an HR manager or admin set the status to
\* approved or rejected, approvedBy to the caller and approvedDate to the
\* current time, whatever the status was.
C28_LeaveDecision ==
  [][ /\ \A l \in leaveRequests' :
           /\ l.status = "pending"
                <=> (l.approvedBy = NULL /\ l.approvedDate = NULL)
           /\ l.status # "pending"
                => (l.approvedBy # NULL /\ l.approvedDate # NULL)
           /\ (\A k \in leaveRequests : k.id # l.id) => l.status = "pending"
      /\ ( /\ reply'.op \in {"approve", "reject"}
           /\ reply'.code # "Forbidden"
           /\ \E l \in leaveRequests : l.id = reply'.args[1] )
        => /\ reply'.code = "LeaveDecided"
           /\ \A l \in leaveRequests :
                l.id = reply'.args[1]
                  => [l EXCEPT !.status = IF reply'.op = "approve"
                                          THEN "approved" ELSE "rejected",
                               !.approvedBy = <<reply'.user>>,
                               !.approvedDate = <<now>>] \in leaveRequests'
    ]_vars

\* The request HR approved the day before has been rejected by the admin
\* today, and a pending one is stored beside it.
C28_Witness ==
  /\ reply.op = "reject" /\ reply.code = "LeaveDecided" /\ reply.args[1] = 1
  /\ \E l \in leaveRequests :
       /\ l.id = 1 /\ l.status = "rejected"
       /\ l.approvedBy = <<3>> /\ l.approvedDate = <<now>>
  /\ \E l \in leaveRequests : l.status = "pending"

====
